---- MODULE Spec2Model ----
(***************************************************************************)
(* Model of bollard's network API (network.rs): the option structs,        *)
(* their query-parameter encoders (into_array), their JSON wire form       *)
(* (serde derive + serde_json), and the seven Docker methods that build a  *)
(* request, hand it to the transport and decode the response.              *)
(*                                                                         *)
(* Text is modelled by TLA+ strings, character by character where the code *)
(* converts it (JSON escaping and parsing).  Rust values are modelled as:  *)
(*   Option<X>      None = <<>>, Some(x) = <<x>>                           *)
(*   Vec<X>         a sequence                                             *)
(*   HashMap<K, V>  a sequence of <<key, value>> pairs with distinct keys, *)
(*                  in the iteration order of that map instance (which a   *)
(*                  HashMap fixes by its own random hasher state)          *)
(*   struct         a record with the Rust field names                     *)
(*   Result<X, E>   [ok |-> TRUE, val |-> x] or [ok |-> FALSE, err |-> e]  *)
(***************************************************************************)
EXTENDS Integers, Sequences, FiniteSets, TLC

VARIABLES call, rt

vars == <<call, rt>>

(***************************************************************************)
(* Bounds of the model.                                                    *)
(***************************************************************************)
\* longest list of values under one filter key
MaxVals == 2
\* longest IPAM config list
MaxConfigs == 2
\* number of call slots (methods that can be in flight at once)
NumCalls == 2

(***************************************************************************)
(* Rust's Option and Result.                                               *)
(***************************************************************************)
None == <<>>

Some(x) == <<x>>

Ok(x) == [ok |-> TRUE, val |-> x]

Err(e) == [ok |-> FALSE, err |-> e]

\* crate::docker::TRUE_STR / FALSE_STR (imported at line 14)
TRUE_STR == "true"

FALSE_STR == "false"

\* bool::to_string
bool_to_string(b) == IF b THEN "true" ELSE "false"

(***************************************************************************)
(* Sequences of length at most n over a set.                               *)
(***************************************************************************)
SeqsUpTo(S, n) == UNION {[1..k -> S] : k \in 0..n}

\* the keys of a map instance, in its iteration order
MapKeys(m) == [i \in 1..Len(m) |-> m[i][1]]

\* a map instance as a function: what the map holds, whatever its iteration order
MapFn(m) == [k \in {m[i][1] : i \in 1..Len(m)} |->
               m[CHOOSE j \in 1..Len(m) : m[j][1] = k][2]]

\* all instances (iteration orders) of the maps with keys in K and values in V
MapsOver(K, V) ==
  {m \in UNION {[1..n -> K \X V] : n \in 0..Cardinality(K)} :
     \A i, j \in 1..Len(m) : i # j => m[i][1] # m[j][1]}

(***************************************************************************)
(* The shapes serde derives a wire form from.  A type descriptor is one of *)
(*   [kind |-> "str"]  [kind |-> "bool"]  [kind |-> "int"]                 *)
(*   [kind |-> "opt", of |-> id]   [kind |-> "vec", of |-> id]             *)
(*   [kind |-> "map", of |-> id]   (text keys, values of type id)          *)
(*   [kind |-> "struct", fields |-> <<[f |-> rust field, k |-> wire key,   *)
(*                                     ty |-> id], ...>>]                  *)
(* and Types maps each id to its descriptor.                               *)
(***************************************************************************)
Field(f, k, ty) == [f |-> f, k |-> k, ty |-> ty]

\* a slip in the struct: the rename of ipam repeated on enable_ipv6
CreateNetworkOptionsFields_rename_repeated ==
  << Field("name", "Name", "T"),
     Field("check_duplicate", "CheckDuplicate", "bool"),
     Field("driver", "Driver", "T"),
     Field("internal", "Internal", "bool"),
     Field("attachable", "Attachable", "bool"),
     Field("ingress", "Ingress", "bool"),
     Field("ipam", "IPAM", "IPAM"),
     Field("enable_ipv6", "IPAM", "bool"),
     Field("options", "Options", "HashMap<T,T>"),
     Field("labels", "Labels", "HashMap<T,T>") >>

\* struct CreateNetworkOptions<T>, rename_all = "PascalCase"
CreateNetworkOptionsFields ==
  << Field("name", "Name", "T"),
     Field("check_duplicate", "CheckDuplicate", "bool"),
     Field("driver", "Driver", "T"),
     Field("internal", "Internal", "bool"),
     Field("attachable", "Attachable", "bool"),
     Field("ingress", "Ingress", "bool"),
     Field("ipam", "IPAM", "IPAM"),
     Field("enable_ipv6", "EnableIPv6", "bool"),
     Field("options", "Options", "HashMap<T,T>"),
     Field("labels", "Labels", "HashMap<T,T>") >>

\* struct IPAM<T>, rename_all = "PascalCase"
IPAMFields ==
  << Field("driver", "Driver", "T"),
     Field("config", "Config", "Vec<IPAMConfig>"),
     Field("options", "Options", "Option<HashMap<T,T>>") >>

\* struct IPAMConfig<T>, rename_all = "PascalCase"
IPAMConfigFields ==
  << Field("subnet", "Subnet", "Option<T>"),
     Field("ip_range", "IPRange", "Option<T>"),
     Field("gateway", "Gateway", "Option<T>"),
     Field("aux_address", "AuxAddress", "Option<HashMap<T,T>>") >>

\* struct CreateNetworkResults, rename_all = "PascalCase"
CreateNetworkResultsFields ==
  << Field("id", "Id", "T"),
     Field("warning", "Warning", "T") >>

\* struct InspectNetworkResults, rename_all = "PascalCase"
InspectNetworkResultsFields ==
  << Field("name", "Name", "T"),
     Field("id", "Id", "T"),
     Field("created", "Created", "T"),
     Field("scope", "Scope", "T"),
     Field("driver", "Driver", "T"),
     Field("enable_ipv6", "EnableIPv6", "bool"),
     Field("ipam", "IPAM", "IPAM"),
     Field("internal", "Internal", "bool"),
     Field("attachable", "Attachable", "bool"),
     Field("ingress", "Ingress", "bool"),
     Field("containers", "Containers", "HashMap<T,InspectNetworkResultsContainers>"),
     Field("options", "Options", "HashMap<T,T>"),
     Field("labels", "Labels", "HashMap<T,T>"),
     Field("config_from", "ConfigFrom", "HashMap<T,T>"),
     Field("config_only", "ConfigOnly", "bool") >>

\* struct InspectNetworkResultsContainers, rename_all = "PascalCase"
InspectNetworkResultsContainersFields ==
  << Field("name", "Name", "T"),
     Field("endpoint_id", "EndpointID", "Option<T>"),
     Field("mac_address", "MacAddress", "Option<T>"),
     Field("ipv4_address", "IPv4Address", "Option<T>"),
     Field("ipv6_address", "IPv6Address", "Option<T>") >>

\* struct ListNetworksResults, rename_all = "PascalCase"
ListNetworksResultsFields ==
  << Field("name", "Name", "T"),
     Field("id", "Id", "T"),
     Field("created", "Created", "T"),
     Field("scope", "Scope", "T"),
     Field("driver", "Driver", "T"),
     Field("enable_ipv6", "EnableIPv6", "bool"),
     Field("internal", "Internal", "bool"),
     Field("attachable", "Attachable", "bool"),
     Field("ingress", "Ingress", "bool"),
     Field("ipam", "IPAM", "IPAM"),
     Field("options", "Options", "HashMap<T,T>"),
     Field("config_from", "ConfigFrom", "HashMap<T,T>"),
     Field("config_only", "ConfigOnly", "bool"),
     Field("containers", "Containers", "HashMap<T,InspectNetworkResultsContainers>"),
     Field("labels", "Labels", "HashMap<T,T>") >>

\* struct ListNetworksOptions<T> / PruneNetworksOptions<T>: the filters field
FiltersType == "HashMap<T,Vec<T>>"

\* struct ConnectNetworkOptions<T>, rename_all = "PascalCase"
ConnectNetworkOptionsFields ==
  << Field("container", "Container", "T"),
     Field("endpoint_config", "EndpointConfig", "EndpointSettings") >>

\* struct EndpointSettings<T>, rename_all = "PascalCase"
EndpointSettingsFields ==
  << Field("ipam_config", "IPAMConfig", "EndpointIPAMConfig"),
     Field("links", "Links", "Vec<T>"),
     Field("aliases", "Aliases", "Vec<T>"),
     Field("network_id", "NetworkID", "T"),
     Field("endpoint_id", "EndpointID", "T"),
     Field("gateway", "Gateway", "T"),
     Field("ip_address", "IPAddress", "T"),
     Field("ip_prefix_len", "IPPrefixLen", "int"),
     Field("ipv6_gateway", "IPv6Gateway", "T"),
     Field("global_ipv6_address", "GlobalIPv6Address", "T"),
     Field("global_ipv6_prefix_len", "GlobalIPv6PrefixLen", "int"),
     Field("mac_address", "MacAddress", "T"),
     Field("driver_opts", "DriverOpts", "Option<HashMap<T,T>>") >>

\* struct EndpointIPAMConfig<T>, every field renamed explicitly
EndpointIPAMConfigFields ==
  << Field("ipv4_address", "IPv4Address", "Option<T>"),
     Field("ipv6_address", "IPv6Address", "Option<T>"),
     Field("link_local_ips", "LinkLocalIPs", "Option<Vec<T>>") >>

\* struct DisconnectNetworkOptions<T>, rename_all = "PascalCase"
DisconnectNetworkOptionsFields ==
  << Field("container", "Container", "T"),
     Field("force", "Force", "bool") >>

\* struct PruneNetworksResults, rename_all = "PascalCase"
PruneNetworksResultsFields ==
  << Field("networks_deleted", "NetworksDeleted", "Option<Vec<T>>") >>

Types ==
  [ T |-> [kind |-> "str"],
    bool |-> [kind |-> "bool"],
    int |-> [kind |-> "int"],
    CreateNetworkOptions |-> [kind |-> "struct", fields |-> CreateNetworkOptionsFields],
    IPAM |-> [kind |-> "struct", fields |-> IPAMFields],
    IPAMConfig |-> [kind |-> "struct", fields |-> IPAMConfigFields],
    CreateNetworkResults |-> [kind |-> "struct", fields |-> CreateNetworkResultsFields],
    ConnectNetworkOptions |-> [kind |-> "struct", fields |-> ConnectNetworkOptionsFields],
    EndpointSettings |-> [kind |-> "struct", fields |-> EndpointSettingsFields],
    EndpointIPAMConfig |-> [kind |-> "struct", fields |-> EndpointIPAMConfigFields],
    DisconnectNetworkOptions |-> [kind |-> "struct", fields |-> DisconnectNetworkOptionsFields],
    PruneNetworksResults |-> [kind |-> "struct", fields |-> PruneNetworksResultsFields],
    InspectNetworkResults |-> [kind |-> "struct", fields |-> InspectNetworkResultsFields],
    InspectNetworkResultsContainers |->
      [kind |-> "struct", fields |-> InspectNetworkResultsContainersFields],
    ListNetworksResults |-> [kind |-> "struct", fields |-> ListNetworksResultsFields] ]
  @@ ("HashMap<T,InspectNetworkResultsContainers>" :>
        [kind |-> "map", of |-> "InspectNetworkResultsContainers"])
  @@ ("Vec<ListNetworksResults>" :> [kind |-> "vec", of |-> "ListNetworksResults"])
  @@ ("Option<T>" :> [kind |-> "opt", of |-> "T"])
  @@ ("Vec<T>" :> [kind |-> "vec", of |-> "T"])
  @@ ("Option<Vec<T>>" :> [kind |-> "opt", of |-> "Vec<T>"])
  @@ ("HashMap<T,T>" :> [kind |-> "map", of |-> "T"])
  @@ ("Option<HashMap<T,T>>" :> [kind |-> "opt", of |-> "HashMap<T,T>"])
  @@ ("HashMap<T,Vec<T>>" :> [kind |-> "map", of |-> "Vec<T>"])
  @@ ("Vec<IPAMConfig>" :> [kind |-> "vec", of |-> "IPAMConfig"])

(***************************************************************************)
(* serde_json::to_string: the compact JSON text of a value.                *)
(***************************************************************************)
\* the escape of one character inside a JSON string (serde_json's ESCAPE table)
EscapeChar(c) ==
  CASE c = "\"" -> "\\\""
    [] c = "\\" -> "\\\\"
    [] c = "\n" -> "\\n"
    [] c = "\t" -> "\\t"
    [] c = "\r" -> "\\r"
    [] OTHER -> c

RECURSIVE format_escaped_str_contents(_)
format_escaped_str_contents(s) ==
  IF s = "" THEN ""
  ELSE EscapeChar(Head(s)) \o format_escaped_str_contents(Tail(s))

\* a JSON string literal
format_escaped_str(s) == "\"" \o format_escaped_str_contents(s) \o "\""

\* the parts joined by commas
RECURSIVE JoinComma(_)
JoinComma(parts) ==
  IF Len(parts) = 0 THEN ""
  ELSE IF Len(parts) = 1 THEN parts[1]
  ELSE parts[1] \o "," \o JoinComma(Tail(parts))

\* Serialize for a value v of the type named ty
RECURSIVE to_string(_, _)
to_string(ty, v) ==
  LET d == Types[ty] IN
  CASE d.kind = "str" -> format_escaped_str(v)
    [] d.kind = "bool" -> bool_to_string(v)
    [] d.kind = "int" -> ToString(v)
    [] d.kind = "opt" -> IF v = None THEN "null" ELSE to_string(d.of, v[1])
    [] d.kind = "vec" ->
         "[" \o JoinComma([i \in 1..Len(v) |-> to_string(d.of, v[i])]) \o "]"
    [] d.kind = "map" ->
         "{" \o JoinComma([i \in 1..Len(v) |->
                  format_escaped_str(v[i][1]) \o ":" \o to_string(d.of, v[i][2])])
             \o "}"
    [] d.kind = "struct" ->
         "{" \o JoinComma([i \in 1..Len(d.fields) |->
                  format_escaped_str(d.fields[i].k) \o ":"
                    \o to_string(d.fields[i].ty, v[d.fields[i].f])])
             \o "}"

(***************************************************************************)
(* serde_json::from_str: a recursive-descent reader of JSON text.  A read  *)
(* at position i answers [ok, val, next]: next is the position after the   *)
(* value.  A JSON value is                                                 *)
(*   [t |-> "str", s |-> text, esc |-> whether the literal held an escape] *)
(*   [t |-> "bool", b |-> ...]  [t |-> "num", n |-> ...]  [t |-> "null"]   *)
(*   [t |-> "arr", items |-> <<values>>]                                   *)
(*   [t |-> "obj", members |-> <<[k |-> key string value, v |-> value]>>]  *)
(***************************************************************************)
CharAt(s, i) == IF i >= 1 /\ i <= Len(s) THEN SubSeq(s, i, i) ELSE ""

ParseFail == [ok |-> FALSE, val |-> [t |-> "null"], next |-> 0]

Parsed(v, n) == [ok |-> TRUE, val |-> v, next |-> n]

\* the character an escape sequence \c stands for ("" when it is no escape)
UnescapeChar(c) ==
  CASE c = "\"" -> "\""
    [] c = "\\" -> "\\"
    [] c = "/" -> "/"
    [] c = "n" -> "\n"
    [] c = "t" -> "\t"
    [] c = "r" -> "\r"
    [] OTHER -> ""

\* the rest of a string literal from position i, after its opening quote
RECURSIVE parse_str_from(_, _, _, _)
parse_str_from(s, i, acc, esc) ==
  LET c == CharAt(s, i) IN
  IF c = "" THEN ParseFail
  ELSE IF c = "\"" THEN Parsed([t |-> "str", s |-> acc, esc |-> esc], i + 1)
  ELSE IF c = "\\"
    THEN LET u == UnescapeChar(CharAt(s, i + 1)) IN
         IF u = "" THEN ParseFail ELSE parse_str_from(s, i + 2, acc \o u, TRUE)
  ELSE IF c \in {"\n", "\t", "\r"} THEN ParseFail
  ELSE parse_str_from(s, i + 1, acc \o c, esc)

Digits == <<"0", "1", "2", "3", "4", "5", "6", "7", "8", "9">>

IsDigit(c) == \E d \in 1..10 : Digits[d] = c

DigitVal(c) == (CHOOSE d \in 1..10 : Digits[d] = c) - 1

\* the digits of an integer from position i
RECURSIVE parse_digits(_, _, _)
parse_digits(s, i, acc) ==
  IF IsDigit(CharAt(s, i))
    THEN parse_digits(s, i + 1, 10 * acc + DigitVal(CharAt(s, i)))
    ELSE [n |-> acc, next |-> i]

parse_number(s, i) ==
  LET neg == CharAt(s, i) = "-"
      j == IF neg THEN i + 1 ELSE i
      r == parse_digits(s, j, 0)
  IN IF ~IsDigit(CharAt(s, j)) THEN ParseFail
     ELSE IF CharAt(s, j) = "0" /\ r.next > j + 1 THEN ParseFail
     ELSE Parsed([t |-> "num", n |-> IF neg THEN 0 - r.n ELSE r.n], r.next)

RECURSIVE parse_value(_, _)
RECURSIVE parse_items(_, _, _)
RECURSIVE parse_members(_, _, _)

parse_value(s, i) ==
  LET c == CharAt(s, i) IN
  CASE c = "\"" -> parse_str_from(s, i + 1, "", FALSE)
    [] c = "{" -> IF CharAt(s, i + 1) = "}"
                    THEN Parsed([t |-> "obj", members |-> <<>>], i + 2)
                    ELSE parse_members(s, i + 1, <<>>)
    [] c = "[" -> IF CharAt(s, i + 1) = "]"
                    THEN Parsed([t |-> "arr", items |-> <<>>], i + 2)
                    ELSE parse_items(s, i + 1, <<>>)
    [] c = "t" -> IF i + 3 <= Len(s) /\ SubSeq(s, i, i + 3) = "true"
                    THEN Parsed([t |-> "bool", b |-> TRUE], i + 4) ELSE ParseFail
    [] c = "f" -> IF i + 4 <= Len(s) /\ SubSeq(s, i, i + 4) = "false"
                    THEN Parsed([t |-> "bool", b |-> FALSE], i + 5) ELSE ParseFail
    [] c = "n" -> IF i + 3 <= Len(s) /\ SubSeq(s, i, i + 3) = "null"
                    THEN Parsed([t |-> "null"], i + 4) ELSE ParseFail
    [] c = "-" \/ IsDigit(c) -> parse_number(s, i)
    [] OTHER -> ParseFail

\* array items from position i (an item is due), acc the items read so far
parse_items(s, i, acc) ==
  LET r == parse_value(s, i) IN
  IF ~r.ok THEN ParseFail
  ELSE LET c == CharAt(s, r.next) IN
       IF c = "," THEN parse_items(s, r.next + 1, Append(acc, r.val))
       ELSE IF c = "]"
         THEN Parsed([t |-> "arr", items |-> Append(acc, r.val)], r.next + 1)
       ELSE ParseFail

\* object members from position i (a key is due), acc the members read so far
parse_members(s, i, acc) ==
  IF CharAt(s, i) # "\"" THEN ParseFail
  ELSE LET k == parse_str_from(s, i + 1, "", FALSE) IN
       IF ~k.ok \/ CharAt(s, k.next) # ":" THEN ParseFail
       ELSE LET r == parse_value(s, k.next + 1) IN
            IF ~r.ok THEN ParseFail
            ELSE LET m == Append(acc, [k |-> k.val, v |-> r.val])
                     c == CharAt(s, r.next)
                 IN IF c = "," THEN parse_members(s, r.next + 1, m)
                    ELSE IF c = "}"
                      THEN Parsed([t |-> "obj", members |-> m], r.next + 1)
                    ELSE ParseFail

\* the whole text as one JSON value (trailing characters are an error)
parse_json(s) ==
  LET r == parse_value(s, 1) IN
  IF r.ok /\ r.next = Len(s) + 1 THEN r ELSE ParseFail

(***************************************************************************)
(* Deserialize, as serde derives it, for the type named ty from a JSON     *)
(* value, with the text parameter T instantiated by inst:                  *)
(*   "String"  owned text: any JSON string                                 *)
(*   "&str"    borrowed text: only a JSON string that can be borrowed from *)
(*             the input, that is one holding no escape sequence           *)
(* The answer holds maps as functions (a fresh map's iteration order is    *)
(* not part of its value).                                                 *)
(***************************************************************************)
SerdeError == Err("serde_json::Error")

\* Deserialize for T
deserialize_text(jv, inst) ==
  IF jv.t = "str" /\ (inst = "&str" => ~jv.esc) THEN Ok(jv.s) ELSE SerdeError

\* the positions of the members of an object whose key is k
MembersKeyed(members, k) == {j \in 1..Len(members) : members[j].k.s = k}

Max(S) == CHOOSE x \in S : \A y \in S : y <= x

RECURSIVE deserialize(_, _, _)
deserialize(ty, jv, inst) ==
  LET d == Types[ty] IN
  CASE d.kind = "str" -> deserialize_text(jv, inst)
    [] d.kind = "bool" -> IF jv.t = "bool" THEN Ok(jv.b) ELSE SerdeError
    [] d.kind = "int" -> IF jv.t = "num" THEN Ok(jv.n) ELSE SerdeError
    [] d.kind = "opt" ->
         IF jv.t = "null" THEN Ok(None)
         ELSE LET r == deserialize(d.of, jv, inst) IN
              IF r.ok THEN Ok(Some(r.val)) ELSE SerdeError
    [] d.kind = "vec" ->
         IF jv.t # "arr" THEN SerdeError
         ELSE LET rs == [i \in 1..Len(jv.items) |-> deserialize(d.of, jv.items[i], inst)] IN
              IF \A i \in 1..Len(rs) : rs[i].ok
                THEN Ok([i \in 1..Len(rs) |-> rs[i].val]) ELSE SerdeError
    [] d.kind = "map" ->
         IF jv.t # "obj" THEN SerdeError
         ELSE LET ms == jv.members
                  ks == [i \in 1..Len(ms) |-> deserialize_text(ms[i].k, inst)]
                  vs == [i \in 1..Len(ms) |-> deserialize(d.of, ms[i].v, inst)]
              IN IF \A i \in 1..Len(ms) : ks[i].ok /\ vs[i].ok
                   \* HashMap::insert: a repeated key keeps its last value
                   THEN Ok([k \in {ks[i].val : i \in 1..Len(ms)} |->
                              vs[Max({i \in 1..Len(ms) : ks[i].val = k})].val])
                   ELSE SerdeError
    [] d.kind = "struct" ->
         IF jv.t = "obj" THEN
           LET fs == d.fields
               at == [i \in 1..Len(fs) |-> MembersKeyed(jv.members, fs[i].k)]
               \* a missing field is an error, but for an Option, which is None
               rs == [i \in 1..Len(fs) |->
                        IF at[i] = {}
                          THEN IF Types[fs[i].ty].kind = "opt" THEN Ok(None) ELSE SerdeError
                          ELSE deserialize(fs[i].ty, jv.members[Max(at[i])].v, inst)]
           IN IF \A i \in 1..Len(fs) : Cardinality(at[i]) <= 1 /\ rs[i].ok
                THEN Ok([f \in {fs[i].f : i \in 1..Len(fs)} |->
                           rs[CHOOSE i \in 1..Len(fs) : fs[i].f = f].val])
                ELSE SerdeError
         ELSE IF jv.t = "arr" THEN
           \* a struct is also read from an array of its fields in order
           LET fs == d.fields
               rs == [i \in 1..Len(fs) |->
                        IF i <= Len(jv.items)
                          THEN deserialize(fs[i].ty, jv.items[i], inst) ELSE SerdeError]
           IN IF Len(jv.items) = Len(fs) /\ \A i \in 1..Len(fs) : rs[i].ok
                THEN Ok([f \in {fs[i].f : i \in 1..Len(fs)} |->
                           rs[CHOOSE i \in 1..Len(fs) : fs[i].f = f].val])
                ELSE SerdeError
         ELSE SerdeError

\* serde_json::from_str
from_str(ty, s, inst) ==
  LET r == parse_json(s) IN
  IF r.ok THEN deserialize(ty, r.val, inst) ELSE SerdeError

\* what a value of the type named ty holds: every map as a function, so that
\* two values are structurally equal exactly when their Contents are equal
RECURSIVE Contents(_, _)
Contents(ty, v) ==
  LET d == Types[ty] IN
  CASE d.kind \in {"str", "bool", "int"} -> v
    [] d.kind = "opt" -> IF v = None THEN None ELSE Some(Contents(d.of, v[1]))
    [] d.kind = "vec" -> [i \in 1..Len(v) |-> Contents(d.of, v[i])]
    [] d.kind = "map" ->
         [k \in {v[i][1] : i \in 1..Len(v)} |->
            Contents(d.of, v[CHOOSE i \in 1..Len(v) : v[i][1] = k][2])]
    [] d.kind = "struct" ->
         [f \in {d.fields[i].f : i \in 1..Len(d.fields)} |->
            Contents(d.fields[CHOOSE i \in 1..Len(d.fields) : d.fields[i].f = f].ty, v[f])]

(***************************************************************************)
(* The text parameter T of the option structs.  "&str" and "String" are    *)
(* the borrowed and the owned text; "Custom" stands for a caller's own     *)
(* type meeting the bounds AsRef<str> + Eq + Hash + Serialize whose        *)
(* Serialize implementation reports an error.                              *)
(***************************************************************************)
TextParams == {"&str", "String", "Custom"}

\* serde_json::to_string(&value): the text, or the error of a Serialize impl
serde_json_to_string(ty, v, inst) ==
  IF inst = "Custom" THEN Err("serde_json::Error") ELSE Ok(to_string(ty, v))

\* crate::errors::Error of each kind
Error(kind, detail) == [kind |-> kind, detail |-> detail]

\* JsonSerializeError { err: e }.into()
JsonSerializeError(e) == Error("JsonSerializeError", e)

(***************************************************************************)
(* The query-parameter encoders: one into_array per trait implementation.  *)
(* A parameter list is a sequence of <<key, value>> pairs.                 *)
(***************************************************************************)
\* a slip in the borrowed encoder: the pairs pushed in the other order
InspectNetworkOptions_str_into_array_scope_first(self) ==
  Ok(<< <<"scope", self.scope>>,
        <<"verbose", IF self.verbose THEN TRUE_STR ELSE FALSE_STR>> >>)

\* impl InspectNetworkQueryParams<&str> for InspectNetworkOptions<&str>
InspectNetworkOptions_str_into_array(self) ==
  Ok(<< <<"verbose", IF self.verbose THEN TRUE_STR ELSE FALSE_STR>>,
        <<"scope", self.scope>> >>)

\* a slip in the owned encoder: the pairs pushed in the other order
InspectNetworkOptions_String_into_array_scope_first(self) ==
  Ok(<< <<"scope", self.scope>>,
        <<"verbose", bool_to_string(self.verbose)>> >>)

\* impl InspectNetworkQueryParams<String> for InspectNetworkOptions<String>
InspectNetworkOptions_String_into_array(self) ==
  Ok(<< <<"verbose", bool_to_string(self.verbose)>>,
        <<"scope", self.scope>> >>)

\* a slip in the list encoder: one pair per filter key instead of one for the map
ListNetworksOptions_str_into_array_per_key(self) ==
  Ok([i \in 1..Len(self.filters) |->
        <<self.filters[i][1], to_string("Vec<T>", self.filters[i][2])>>])

\* impl ListNetworksQueryParams<&str, String> for ListNetworksOptions<&str>
ListNetworksOptions_str_into_array(self) ==
  LET r == serde_json_to_string(FiltersType, self.filters, "&str") IN
  IF r.ok THEN Ok(<< <<"filters", r.val>> >>) ELSE Err(JsonSerializeError(r.err))

\* impl PruneNetworksQueryParams<&str, String> for PruneNetworksOptions<&str>
PruneNetworksOptions_str_into_array(self) ==
  LET r == serde_json_to_string(FiltersType, self.filters, "&str") IN
  IF r.ok THEN Ok(<< <<"filters", r.val>> >>) ELSE Err(JsonSerializeError(r.err))

\* the instantiations of T for which each query-parameter trait is implemented
InspectNetworkQueryParams_impls == {"&str", "String"}

ListNetworksQueryParams_impls == {"&str"}

PruneNetworksQueryParams_impls == {"&str"}

\* trait dispatch: the into_array of the options' own instantiation
InspectNetworkQueryParams_into_array(inst, o) ==
  IF inst = "&str" THEN InspectNetworkOptions_str_into_array(o)
  ELSE InspectNetworkOptions_String_into_array(o)

ListNetworksQueryParams_into_array(inst, o) == ListNetworksOptions_str_into_array(o)

PruneNetworksQueryParams_into_array(inst, o) == PruneNetworksOptions_str_into_array(o)

(***************************************************************************)
(* The helpers of Docker the seven methods call (crate::docker).           *)
(***************************************************************************)
\* Body::empty()
Body_empty == ""

\* Docker::transpose_option: Option<Result<X>> to Result<Option<X>>
transpose_option(o) ==
  IF o = None THEN Ok(None)
  ELSE IF o[1].ok THEN Ok(Some(o[1].val)) ELSE o[1]

\* Docker::serialize_payload(Some(config)): the JSON body of the options
serialize_payload(ty, config, inst) ==
  LET r == serde_json_to_string(ty, config, inst) IN
  IF r.ok THEN Ok(r.val) ELSE Err(JsonSerializeError(r.err))

\* Docker::build_request: the request, or the first error of its parts
build_request(path, method, query, payload) ==
  IF ~query.ok THEN query
  ELSE IF ~payload.ok THEN payload
  ELSE Ok([method |-> method, path |-> path,
           query |-> IF query.val = None THEN <<>> ELSE query.val[1],
           body |-> payload.val])

\* what the transport answers: no response at all, or a status and a body
IsSuccess(resp) == resp.kind = "response" /\ resp.status \in 200..299

\* Docker::process_request, once the transport has answered
process_request(resp) ==
  IF resp.kind = "failure" THEN Err(Error("TransportError", resp.detail))
  ELSE IF ~IsSuccess(resp) THEN Err(Error("TransportError", ToString(resp.status)))
  ELSE Ok(resp.body)

\* Docker::process_into_value: the body decoded as the result type
process_into_value(resp, ty) ==
  LET r == process_request(resp) IN
  IF ~r.ok THEN r
  ELSE LET v == from_str(ty, r.val, "String") IN
       IF v.ok THEN v ELSE Err(Error("DeserializationError", v.err))

\* the unit value ()
Unit == [unit |-> TRUE]

\* Docker::process_into_unit: no payload is decoded
process_into_unit(resp) ==
  LET r == process_request(resp) IN
  IF ~r.ok THEN r ELSE Ok(Unit)

(***************************************************************************)
(* The seven methods of impl Docker, up to the point each awaits the       *)
(* transport: the request it builds, and how it processes the response.    *)
(***************************************************************************)
Pending(req, into, ty) == [req |-> req, into |-> into, ty |-> ty]

create_network(config, inst) ==
  Pending(build_request("/networks/create", "POST", Ok(None),
                        serialize_payload("CreateNetworkOptions", config, inst)),
          "value", "CreateNetworkResults")

\* a slip in remove_network: the response processed as a value to decode
remove_network_into_value(network_name) ==
  Pending(build_request("/networks/" \o network_name, "DELETE", Ok(None), Ok(Body_empty)),
          "value", "CreateNetworkResults")

remove_network(network_name) ==
  Pending(build_request("/networks/" \o network_name, "DELETE", Ok(None), Ok(Body_empty)),
          "unit", "()")

\* a slip in inspect_network: the response processed as a unit
inspect_network_into_unit(network_name, options, inst) ==
  Pending(build_request("/networks/" \o network_name, "GET",
                        transpose_option(IF options = None THEN None
                          ELSE Some(InspectNetworkQueryParams_into_array(inst, options[1]))),
                        Ok(Body_empty)),
          "unit", "InspectNetworkResults")

inspect_network(network_name, options, inst) ==
  Pending(build_request("/networks/" \o network_name, "GET",
                        transpose_option(IF options = None THEN None
                          ELSE Some(InspectNetworkQueryParams_into_array(inst, options[1]))),
                        Ok(Body_empty)),
          "value", "InspectNetworkResults")

\* a slip in list_networks: absent options encoded as default options
list_networks_default_options(options, inst) ==
  Pending(build_request("/networks", "GET",
                        transpose_option(Some(ListNetworksQueryParams_into_array(inst,
                          IF options = None THEN [filters |-> <<>>] ELSE options[1]))),
                        Ok(Body_empty)),
          "value", "Vec<ListNetworksResults>")

list_networks(options, inst) ==
  Pending(build_request("/networks", "GET",
                        transpose_option(IF options = None THEN None
                          ELSE Some(ListNetworksQueryParams_into_array(inst, options[1]))),
                        Ok(Body_empty)),
          "value", "Vec<ListNetworksResults>")

\* a slip in connect_network: the path of disconnect_network
connect_network_disconnect_path(network_name, config, inst) ==
  Pending(build_request("/networks/" \o network_name \o "/disconnect", "POST", Ok(None),
                        serialize_payload("ConnectNetworkOptions", config, inst)),
          "unit", "()")

connect_network(network_name, config, inst) ==
  Pending(build_request("/networks/" \o network_name \o "/connect", "POST", Ok(None),
                        serialize_payload("ConnectNetworkOptions", config, inst)),
          "unit", "()")

\* a slip in disconnect_network: a body that failed to serialize sent as empty
disconnect_network_error_dropped(network_name, config, inst) ==
  LET payload == serialize_payload("DisconnectNetworkOptions", config, inst) IN
  Pending(build_request("/networks/" \o network_name \o "/disconnect", "POST", Ok(None),
                        IF payload.ok THEN payload ELSE Ok(Body_empty)),
          "unit", "()")

disconnect_network(network_name, config, inst) ==
  Pending(build_request("/networks/" \o network_name \o "/disconnect", "POST", Ok(None),
                        serialize_payload("DisconnectNetworkOptions", config, inst)),
          "unit", "()")

\* a slip in prune_networks: the filters sent in the body as well
prune_networks_filters_in_body(options, inst) ==
  Pending(build_request("/networks/prune", "POST",
                        transpose_option(IF options = None THEN None
                          ELSE Some(PruneNetworksQueryParams_into_array(inst, options[1]))),
                        IF options = None THEN Ok(Body_empty)
                          ELSE serialize_payload(FiltersType, options[1].filters, inst)),
          "value", "PruneNetworksResults")

prune_networks(options, inst) ==
  Pending(build_request("/networks/prune", "POST",
                        transpose_option(IF options = None THEN None
                          ELSE Some(PruneNetworksQueryParams_into_array(inst, options[1]))),
                        Ok(Body_empty)),
          "value", "PruneNetworksResults")

(***************************************************************************)
(* The inputs the model draws from.                                        *)
(***************************************************************************)
\* network names; the second holds characters a URL path would escape
NetworkNames == {"my_network_name", "a b/c?d"}

\* text for the fields of the option structs; the last two hold characters
\* that JSON escapes
Texts == {"", "certs", "a\"b", "c\\d\n"}

InspectNetworkOptionsValues ==
  {[verbose |-> v, scope |-> s] : v \in BOOLEAN, s \in {"", "global", "swarm"}}

FilterKeys == {"label", "na\"me"}

FilterValues == {"maintainer=x", "a\"b"}

\* ListNetworksOptions / PruneNetworksOptions: every filters map instance
FiltersOptionsValues ==
  {[filters |-> m] : m \in MapsOver(FilterKeys, SeqsUpTo(FilterValues, MaxVals))}

\* HashMap<T, T> instances for options, labels and aux addresses
TextMaps == MapsOver({"k", "a\"b"}, {"v", "c\\d\n"})

IPAMConfigValues ==
  { [subnet |-> None, ip_range |-> None, gateway |-> None, aux_address |-> None],
    [subnet |-> Some("10.0.0.0/8"), ip_range |-> None, gateway |-> None,
     aux_address |-> Some(<<>>)],
    [subnet |-> Some("172.16.0.0/12"), ip_range |-> Some("172.16.1.0/24"),
     gateway |-> Some("172.16.0.1"),
     aux_address |-> Some(<< <<"host1", "172.16.0.5">>, <<"host2", "172.16.0.6">> >>)],
    [subnet |-> Some("a\"b"), ip_range |-> Some(""), gateway |-> None,
     aux_address |-> Some(<< <<"a\"b", "c\\d\n">> >>)] }

IPAMValues ==
  {[driver |-> d, config |-> c, options |-> o] :
     d \in {"default"}, c \in SeqsUpTo(IPAMConfigValues, MaxConfigs),
     o \in {None, Some(<<>>), Some(<< <<"k", "v">>, <<"a\"b", "">> >>)}}

\* CreateNetworkOptions::default() with a name, as in the method's example
PlainCreate ==
  [name |-> "certs", check_duplicate |-> FALSE, driver |-> "", internal |-> FALSE,
   attachable |-> FALSE, ingress |-> FALSE,
   ipam |-> [driver |-> "", config |-> <<>>, options |-> None],
   enable_ipv6 |-> FALSE, options |-> <<>>, labels |-> <<>>]

\* a record with every field set
FullCreate ==
  [name |-> "net-1", check_duplicate |-> TRUE, driver |-> "bridge", internal |-> TRUE,
   attachable |-> FALSE, ingress |-> TRUE,
   ipam |-> [driver |-> "default",
             config |-> << [subnet |-> Some("10.0.0.0/8"), ip_range |-> None,
                            gateway |-> Some("10.0.0.1"), aux_address |-> None] >>,
             options |-> Some(<< <<"k", "v">> >>)],
   enable_ipv6 |-> TRUE,
   options |-> << <<"com.docker.network.bridge.name", "br0">> >>,
   labels |-> << <<"maintainer", "x">> >>]

\* each base record with one field (or all flags) ranging over its values
CreateVariants(b) ==
  {[b EXCEPT !.name = t] : t \in Texts}
    \cup {[b EXCEPT !.driver = t] : t \in Texts}
    \cup {[b EXCEPT !.check_duplicate = f[1], !.internal = f[2], !.attachable = f[3],
                    !.ingress = f[4], !.enable_ipv6 = f[5]] : f \in [1..5 -> BOOLEAN]}
    \cup {[b EXCEPT !.ipam = i] : i \in IPAMValues}
    \cup {[b EXCEPT !.options = m] : m \in TextMaps}
    \cup {[b EXCEPT !.labels = m] : m \in TextMaps}

CreateNetworkOptionsValues == CreateVariants(PlainCreate) \cup CreateVariants(FullCreate)

\* the create options the request pipeline is run with
CreateNetworkCalls ==
  {PlainCreate, FullCreate}
    \cup {[PlainCreate EXCEPT !.name = t] : t \in Texts}
    \cup {[FullCreate EXCEPT !.labels = m] : m \in TextMaps}

PlainEndpoint ==
  [ipam_config |-> [ipv4_address |-> None, ipv6_address |-> None, link_local_ips |-> None],
   links |-> <<>>, aliases |-> <<>>, network_id |-> "", endpoint_id |-> "",
   gateway |-> "", ip_address |-> "", ip_prefix_len |-> 0, ipv6_gateway |-> "",
   global_ipv6_address |-> "", global_ipv6_prefix_len |-> 0, mac_address |-> "",
   driver_opts |-> None]

FullEndpoint ==
  [ipam_config |-> [ipv4_address |-> Some("172.24.56.89"),
                    ipv6_address |-> Some("2001:db8::5689"),
                    link_local_ips |-> Some(<<"169.254.34.68", "fe80::3468">>)],
   links |-> <<"db", "cache">>, aliases |-> <<"a\"b">>, network_id |-> "n1",
   endpoint_id |-> "e1", gateway |-> "172.24.0.1", ip_address |-> "172.24.56.89",
   ip_prefix_len |-> 16, ipv6_gateway |-> "2001:db8::1",
   global_ipv6_address |-> "2001:db8::5689", global_ipv6_prefix_len |-> 64,
   mac_address |-> "02:42:ac:18:38:59",
   driver_opts |-> Some(<< <<"k", "v">>, <<"a\"b", "">> >>)]

ConnectNetworkOptionsValues ==
  {[container |-> c, endpoint_config |-> e] :
     c \in {"3613f73ba0e4", "a\"b"},
     e \in {PlainEndpoint, FullEndpoint,
            [PlainEndpoint EXCEPT !.ip_prefix_len = 0 - 1, !.global_ipv6_prefix_len = 128],
            [FullEndpoint EXCEPT !.links = <<"cache", "db">>]}}

DisconnectNetworkOptionsValues ==
  {[container |-> c, force |-> f] : c \in {"3613f73ba0e4", "a\"b"}, f \in BOOLEAN}

\* a result of each value-returning method, as the daemon would describe it
SampleIPAM ==
  [driver |-> "default",
   config |-> << [subnet |-> Some("172.19.0.0/16"), ip_range |-> None,
                  gateway |-> Some("172.19.0.1"), aux_address |-> None] >>,
   options |-> None]

SampleInspect ==
  [name |-> "net01", id |-> "7d86d31b1478", created |-> "2016-10-19T04:33:30Z",
   scope |-> "local", driver |-> "bridge", enable_ipv6 |-> FALSE, ipam |-> SampleIPAM,
   internal |-> FALSE, attachable |-> FALSE, ingress |-> FALSE,
   containers |-> << <<"19a4d5d687db",
                       [name |-> "test", endpoint_id |-> Some("628cadb8bcb9"),
                        mac_address |-> Some("02:42:ac:13:00:02"),
                        ipv4_address |-> Some("172.19.0.2/16"),
                        ipv6_address |-> Some("")]>> >>,
   options |-> << <<"com.docker.network.bridge.name", "br0">> >>,
   labels |-> <<>>, config_from |-> <<>>, config_only |-> FALSE]

SampleList ==
  << [name |-> "bridge", id |-> "f2de39df4171", created |-> "2016-10-19T06:21:00Z",
      scope |-> "local", driver |-> "bridge", enable_ipv6 |-> FALSE, internal |-> FALSE,
      attachable |-> FALSE, ingress |-> FALSE, ipam |-> SampleIPAM, options |-> <<>>,
      config_from |-> <<>>, config_only |-> FALSE, containers |-> <<>>,
      labels |-> << <<"maintainer", "x">> >>] >>

Sample(ty) ==
  CASE ty = "CreateNetworkResults" -> [id |-> "22be93d5babb", warning |-> ""]
    [] ty = "InspectNetworkResults" -> SampleInspect
    [] ty = "Vec<ListNetworksResults>" -> SampleList
    [] ty = "PruneNetworksResults" -> [networks_deleted |-> Some(<<"net01", "net02">>)]

\* the response bodies the transport may deliver for a method decoding ty: a
\* well-formed result, nothing, an error message, truncated JSON, null
ResponseBodies(ty) ==
  (IF ty = "()" THEN {} ELSE {to_string(ty, Sample(ty))})
    \cup {"", "{\"message\":\"no such network\"}", "[{\"Name\":", "null"}

\* the answers of the transport: a connection failure, or a status with a body
Responses(ty) ==
  {[kind |-> "failure", detail |-> "connection refused"]}
    \cup {[kind |-> "response", status |-> st, body |-> b] :
            st \in {200, 404, 500}, b \in ResponseBodies(ty)}

(***************************************************************************)
(* The state.  call[c] is one invocation of a method of Docker: idle, or   *)
(* awaiting the transport with the request it built, or done with the      *)
(* result it returned.  sent counts the requests handed to the transport.  *)
(* rt is a value taken through a conversion on its own: a                  *)
(* CreateNetworkOptions value through its wire form and back, or two       *)
(* structurally equal option values through their encoders.                *)
(***************************************************************************)
CallIds == 1..NumCalls

IdleCall == [pc |-> "idle"]

RtOff == [pc |-> "off"]

Init ==
  /\ call = [c \in CallIds |-> IdleCall]
  /\ rt = RtOff

\* an invocation once its method has run up to its await: the request is built
\* and, unless that failed, handed to the transport; a failure is returned at once
Started(op, name, options, inst, m) ==
  [pc |-> IF m.req.ok THEN "awaiting" ELSE "done",
   op |-> op, name |-> name, options |-> options, inst |-> inst,
   req |-> m.req, into |-> m.into, ty |-> m.ty,
   sent |-> IF m.req.ok THEN 1 ELSE 0,
   resp |-> None,
   result |-> IF m.req.ok THEN None ELSE Some(m.req)]

CreateNetwork(c) ==
  /\ call[c].pc = "idle"
  /\ \E config \in CreateNetworkCalls, inst \in TextParams :
       call' = [call EXCEPT ![c] =
         Started("create", "", Some(config), inst, create_network(config, inst))]
  /\ UNCHANGED rt

RemoveNetwork(c) ==
  /\ call[c].pc = "idle"
  /\ \E name \in NetworkNames :
       call' = [call EXCEPT ![c] =
         Started("remove", name, None, "&str", remove_network(name))]
  /\ UNCHANGED rt

InspectNetwork(c) ==
  /\ call[c].pc = "idle"
  /\ \E name \in NetworkNames, inst \in InspectNetworkQueryParams_impls,
        options \in {None} \cup {Some(o) : o \in InspectNetworkOptionsValues} :
       call' = [call EXCEPT ![c] =
         Started("inspect", name, options, inst, inspect_network(name, options, inst))]
  /\ UNCHANGED rt

ListNetworks(c) ==
  /\ call[c].pc = "idle"
  /\ \E inst \in ListNetworksQueryParams_impls,
        options \in {None} \cup {Some(o) : o \in FiltersOptionsValues} :
       call' = [call EXCEPT ![c] =
         Started("list", "", options, inst, list_networks(options, inst))]
  /\ UNCHANGED rt

ConnectNetwork(c) ==
  /\ call[c].pc = "idle"
  /\ \E name \in NetworkNames, config \in ConnectNetworkOptionsValues,
        inst \in TextParams :
       call' = [call EXCEPT ![c] =
         Started("connect", name, Some(config), inst,
                 connect_network(name, config, inst))]
  /\ UNCHANGED rt

DisconnectNetwork(c) ==
  /\ call[c].pc = "idle"
  /\ \E name \in NetworkNames, config \in DisconnectNetworkOptionsValues,
        inst \in TextParams :
       call' = [call EXCEPT ![c] =
         Started("disconnect", name, Some(config), inst,
                 disconnect_network(name, config, inst))]
  /\ UNCHANGED rt

PruneNetworks(c) ==
  /\ call[c].pc = "idle"
  /\ \E inst \in PruneNetworksQueryParams_impls,
        options \in {None} \cup {Some(o) : o \in FiltersOptionsValues} :
       call' = [call EXCEPT ![c] =
         Started("prune", "", options, inst, prune_networks(options, inst))]
  /\ UNCHANGED rt

\* a slip in the await: a failed request is handed to the transport again
TransportAnswers_retry(c) ==
  /\ call[c].pc = "awaiting"
  /\ \E resp \in Responses(call[c].ty) :
       IF resp.kind = "failure" /\ call[c].sent < 2
         THEN call' = [call EXCEPT ![c].sent = call[c].sent + 1]
         ELSE call' = [call EXCEPT ![c].pc = "done",
                                   ![c].resp = Some(resp),
                                   ![c].result =
                                     Some(IF call[c].into = "value"
                                            THEN process_into_value(resp, call[c].ty)
                                            ELSE process_into_unit(resp))]
  /\ UNCHANGED rt

\* the transport answers and the awaiting method returns its result
TransportAnswers(c) ==
  /\ call[c].pc = "awaiting"
  /\ \E resp \in Responses(call[c].ty) :
       call' = [call EXCEPT ![c].pc = "done",
                            ![c].resp = Some(resp),
                            ![c].result =
                              Some(IF call[c].into = "value"
                                     THEN process_into_value(resp, call[c].ty)
                                     ELSE process_into_unit(resp))]
  /\ UNCHANGED rt

\* the caller takes the result; the invocation is over
Return(c) ==
  /\ call[c].pc = "done"
  /\ call' = [call EXCEPT ![c] = IdleCall]
  /\ UNCHANGED rt

\* one invocation at a time
Next ==
  \/ CreateNetwork(1)
  \/ RemoveNetwork(1)
  \/ InspectNetwork(1)
  \/ ListNetworks(1)
  \/ ConnectNetwork(1)
  \/ DisconnectNetwork(1)
  \/ PruneNetworks(1)
  \/ TransportAnswers(1)
  \/ Return(1)

Spec == Init /\ [][Next]_vars

(***************************************************************************)
(* The wire form of CreateNetworkOptions taken on its own: a value is      *)
(* serialized as the body of create_network is, and the text deserialized  *)
(* by the Deserialize the struct derives, for the borrowed and the owned   *)
(* text.                                                                   *)
(***************************************************************************)
InitRoundTrip ==
  /\ call = [c \in CallIds |-> IdleCall]
  /\ rt \in {[pc |-> "value", v |-> v, inst |-> inst] :
               v \in CreateNetworkOptionsValues, inst \in {"&str", "String"}}

SerializeCreate ==
  /\ rt.pc = "value"
  /\ rt' = [pc |-> "text", v |-> rt.v, inst |-> rt.inst,
            json |-> serde_json_to_string("CreateNetworkOptions", rt.v, rt.inst)]
  /\ UNCHANGED call

DeserializeCreate ==
  /\ rt.pc = "text"
  /\ rt.json.ok
  /\ rt' = [pc |-> "read", v |-> rt.v, inst |-> rt.inst, json |-> rt.json,
            out |-> from_str("CreateNetworkOptions", rt.json.val, rt.inst)]
  /\ UNCHANGED call

NextRoundTrip == SerializeCreate \/ DeserializeCreate

SpecRoundTrip == InitRoundTrip /\ [][NextRoundTrip]_vars

(***************************************************************************)
(* Properties.                                                             *)
(***************************************************************************)
\* the invocations of the methods in ops that are under way or done
Calls(ops) == {c \in CallIds : call[c].pc # "idle" /\ call[c].op \in ops}

\* those of them that were given Some(options)
CallsWithOptions(ops) == {c \in Calls(ops) : call[c].options # None}

\* C1: into_array of InspectNetworkOptions succeeds for the borrowed and the
\* owned text alike and gives exactly ("verbose", "true" or "false") and then
\* ("scope", the scope text unchanged); both instantiations give the same
\* pairs, and they are the query of the request inspect_network builds.
C1_InspectPairs ==
  \A c \in CallsWithOptions({"inspect"}) :
    LET o == call[c].options[1]
        pairs == << <<"verbose", IF o.verbose THEN "true" ELSE "false">>,
                    <<"scope", o.scope>> >>
    IN /\ InspectNetworkOptions_str_into_array(o) = Ok(pairs)
       /\ InspectNetworkOptions_String_into_array(o) = Ok(pairs)
       /\ InspectNetworkQueryParams_into_array(call[c].inst, o) = Ok(pairs)
       /\ call[c].req.ok
       /\ call[c].req.val.query = pairs

\* an inspect of a verbose, global-scope network with borrowed text has built
\* its request with the two pairs of the example
C1_Witness ==
  \E c \in CallsWithOptions({"inspect"}) :
    /\ call[c].options[1] = [verbose |-> TRUE, scope |-> "global"]
    /\ call[c].inst = "&str"
    /\ call[c].req.val.query = << <<"verbose", "true">>, <<"scope", "global">> >>

\* C2: into_array of ListNetworksOptions and PruneNetworksOptions gives exactly
\* one pair, keyed "filters", whatever the number of filter keys and values,
\* and its value is JSON text that reads back as the whole filters map: every
\* key with its list of values in their order.
C2_OneFiltersPair ==
  \A c \in CallsWithOptions({"list", "prune"}) :
    LET o == call[c].options[1]
        r == IF call[c].op = "list"
               THEN ListNetworksQueryParams_into_array(call[c].inst, o)
               ELSE PruneNetworksQueryParams_into_array(call[c].inst, o)
    IN /\ r.ok
       /\ Len(r.val) = 1
       /\ r.val[1][1] = "filters"
       /\ from_str(FiltersType, r.val[1][2], "String") = Ok(MapFn(o.filters))
       /\ call[c].req.ok
       /\ call[c].req.val.query = r.val

\* a list with two filter keys, one of them holding two values, has built a
\* request with a single parameter
C2_Witness ==
  \E c \in CallsWithOptions({"list"}) :
    /\ call[c].options[1].filters =
         << <<"label", <<"maintainer=x", "a\"b">> >>, <<"na\"me", <<"a\"b">> >> >>
    /\ call[c].req.val.query =
         << <<"filters", "{\"label\":[\"maintainer=x\",\"a\\\"b\"],\"na\\\"me\":[\"a\\\"b\"]}">> >>

\* C3: inspect_network, list_networks and prune_networks called with None
\* build a request with no query parameter; list_networks and prune_networks
\* called with Some(options) whose filters map is empty build a request with
\* the one parameter ("filters", "{}"); the two parameter lists differ.
C3_AbsentIsNotEmpty ==
  /\ \A c \in Calls({"inspect", "list", "prune"}) :
       call[c].options = None => call[c].req.ok /\ call[c].req.val.query = <<>>
  /\ \A c \in CallsWithOptions({"list", "prune"}) :
       call[c].options[1].filters = <<>> =>
         /\ call[c].req.ok
         /\ call[c].req.val.query = << <<"filters", "{}">> >>
         /\ call[c].req.val.query #
              (CASE call[c].op = "list" -> list_networks(None, call[c].inst)
                 [] call[c].op = "prune" -> prune_networks(None, call[c].inst)).req.val.query

\* a prune with an empty filters map awaits the answer to a request with one
\* parameter
C3_Witness ==
  \E c \in CallsWithOptions({"prune"}) :
    /\ call[c].options[1].filters = <<>>
    /\ call[c].pc = "awaiting"
    /\ Len(call[c].req.val.query) = 1

\* the method and the path of each operation's row, for the network name
Row(op, name) ==
  CASE op = "create" -> <<"POST", "/networks/create">>
    [] op = "remove" -> <<"DELETE", "/networks/" \o name>>
    [] op = "inspect" -> <<"GET", "/networks/" \o name>>
    [] op = "list" -> <<"GET", "/networks">>
    [] op = "connect" -> <<"POST", "/networks/" \o name \o "/connect">>
    [] op = "disconnect" -> <<"POST", "/networks/" \o name \o "/disconnect">>
    [] op = "prune" -> <<"POST", "/networks/prune">>

AllOps == {"create", "remove", "inspect", "list", "connect", "disconnect", "prune"}

\* C4: every request an operation builds has the method and the path of its
\* row, the network name standing in the path exactly as the caller gave it.
C4_MethodAndPath ==
  \A c \in Calls(AllOps) :
    call[c].req.ok =>
      <<call[c].req.val.method, call[c].req.val.path>> = Row(call[c].op, call[c].name)

\* a connect to a network whose name holds a space, a slash and a question
\* mark has built a request with that name unchanged in its path
C4_Witness ==
  \E c \in Calls({"connect"}) :
    /\ call[c].name = "a b/c?d"
    /\ call[c].req.ok
    /\ call[c].req.val.method = "POST"
    /\ call[c].req.val.path = "/networks/a b/c?d/connect"

\* the struct a body-carrying operation serializes
OptionsType(op) ==
  CASE op = "create" -> "CreateNetworkOptions"
    [] op = "connect" -> "ConnectNetworkOptions"
    [] op = "disconnect" -> "DisconnectNetworkOptions"

\* C5: options travel in the query or in the body, never both.  create,
\* remove, connect and disconnect send no query parameter; the body of create,
\* connect and disconnect is JSON text that reads back as the full options
\* struct; remove, inspect, list and prune send an empty body.
C5_QueryOrBody ==
  \A c \in Calls(AllOps) :
    call[c].req.ok =>
      /\ call[c].op \in {"create", "remove", "connect", "disconnect"} =>
           call[c].req.val.query = <<>>
      /\ call[c].op \in {"create", "connect", "disconnect"} =>
           from_str(OptionsType(call[c].op), call[c].req.val.body, "String")
             = Ok(Contents(OptionsType(call[c].op), call[c].options[1]))
      /\ call[c].op \in {"remove", "inspect", "list", "prune"} =>
           call[c].req.val.body = ""
      /\ call[c].req.val.query = <<>> \/ call[c].req.val.body = ""

\* a disconnect has returned after a request whose body is the options' JSON
\* and whose query is empty
C5_Witness ==
  \E c \in Calls({"disconnect"}) :
    /\ call[c].req.ok
    /\ call[c].options[1] = [container |-> "3613f73ba0e4", force |-> TRUE]
    /\ call[c].req.val.body = "{\"Container\":\"3613f73ba0e4\",\"Force\":true}"
    /\ call[c].req.val.query = <<>>
    /\ call[c].pc = "done"

\* the result an invocation returned
Returned(c) == call[c].result[1]

\* whether converting the options of invocation c to their wire form fails
ConversionFails(c) ==
  CASE call[c].op \in {"create", "connect", "disconnect"} ->
         ~serde_json_to_string(OptionsType(call[c].op), call[c].options[1], call[c].inst).ok
    [] call[c].op \in {"list", "prune"} ->
         /\ call[c].options # None
         /\ ~serde_json_to_string(FiltersType, call[c].options[1].filters, call[c].inst).ok
    [] OTHER -> FALSE

\* C6: when converting the options to their wire form fails, the operation
\* has returned a JsonSerializeError, built no request (no parameter list,
\* partial or not), and the transport was never invoked for it.
C6_SerializeErrorBeforeTransport ==
  \A c \in Calls(AllOps) :
    ConversionFails(c) =>
      /\ call[c].pc = "done"
      /\ ~call[c].req.ok
      /\ ~Returned(c).ok
      /\ Returned(c).err.kind = "JsonSerializeError"
      /\ call[c].sent = 0
      /\ call[c].resp = None

\* a create whose options do not serialize has returned its error
C6_Witness ==
  \E c \in Calls({"create"}) :
    /\ call[c].inst = "Custom"
    /\ call[c].pc = "done"
    /\ Returned(c).err.kind = "JsonSerializeError"
    /\ call[c].sent = 0

\* C7: remove_network, connect_network and disconnect_network return a
\* transport error, never a deserialization error, whenever the transport
\* answers with a non-success status, whatever the body; on success they
\* return the unit value, whatever the body.
C7_UnitOperations ==
  \A c \in Calls({"remove", "connect", "disconnect"}) :
    call[c].pc = "done" /\ call[c].resp # None =>
      LET resp == call[c].resp[1] IN
      /\ resp.kind = "response" /\ resp.status \notin 200..299 =>
           ~Returned(c).ok /\ Returned(c).err.kind = "TransportError"
      /\ resp.kind = "response" /\ resp.status \in 200..299 =>
           Returned(c) = Ok(Unit)
      /\ ~Returned(c).ok => Returned(c).err.kind # "DeserializationError"

\* a remove answered 404 with a JSON error message has returned a transport
\* error
C7_Witness ==
  \E c \in Calls({"remove"}) :
    /\ call[c].pc = "done"
    /\ call[c].resp = Some([kind |-> "response", status |-> 404,
                            body |-> "{\"message\":\"no such network\"}"])
    /\ Returned(c).err.kind = "TransportError"

\* bodies that are no JSON value, or no value of any of the result types
UnreadableBodies == {"", "[{\"Name\":", "null"}

\* the type each value-returning method decodes the response body as
ResultType(op) ==
  CASE op = "create" -> "CreateNetworkResults"
    [] op = "inspect" -> "InspectNetworkResults"
    [] op = "list" -> "Vec<ListNetworksResults>"
    [] op = "prune" -> "PruneNetworksResults"

\* C8: for inspect_network, create_network, list_networks and prune_networks
\* a success response whose body is malformed JSON or has an unexpected shape
\* yields a deserialization error, and one whose body is a result of the
\* method's type yields that result; a connection failure or a non-success
\* status yields a transport error; the two kinds differ and neither outcome
\* is reported as the other.
C8_DecodeErrorIsNotTransportError ==
  \A c \in Calls({"create", "inspect", "list", "prune"}) :
    call[c].pc = "done" /\ call[c].resp # None =>
      LET resp == call[c].resp[1]
          ty == ResultType(call[c].op)
          success == resp.kind = "response" /\ resp.status \in 200..299
      IN /\ success /\ (resp.body \in UnreadableBodies
                          \/ ~from_str(ty, resp.body, "String").ok) =>
              ~Returned(c).ok /\ Returned(c).err.kind = "DeserializationError"
         /\ success /\ resp.body = to_string(ty, Sample(ty)) =>
              Returned(c).ok /\ Returned(c).val = Contents(ty, Sample(ty))
         /\ ~success =>
              ~Returned(c).ok /\ Returned(c).err.kind = "TransportError"
         /\ ~Returned(c).ok =>
              (Returned(c).err.kind = "DeserializationError") = success

\* an inspect answered 200 with truncated JSON has returned a deserialization
\* error
C8_Witness ==
  \E c \in Calls({"inspect"}) :
    /\ call[c].pc = "done"
    /\ call[c].resp = Some([kind |-> "response", status |-> 200, body |-> "[{\"Name\":"])
    /\ Returned(c).err.kind = "DeserializationError"

\* whether every text of a value (map keys included) can be borrowed from its
\* JSON form, that is, is written there without an escape sequence
RECURSIVE Borrowable(_, _)
Borrowable(ty, v) ==
  LET d == Types[ty] IN
  CASE d.kind = "str" -> format_escaped_str_contents(v) = v
    [] d.kind \in {"bool", "int"} -> TRUE
    [] d.kind = "opt" -> v = None \/ Borrowable(d.of, v[1])
    [] d.kind = "vec" -> \A i \in 1..Len(v) : Borrowable(d.of, v[i])
    [] d.kind = "map" ->
         \A i \in 1..Len(v) : Borrowable("T", v[i][1]) /\ Borrowable(d.of, v[i][2])
    [] d.kind = "struct" ->
         \A i \in 1..Len(d.fields) : Borrowable(d.fields[i].ty, v[d.fields[i].f])

\* C9 as stated: serializing any CreateNetworkOptions value and deserializing
\* the text yields a structurally equal record, for the borrowed and for the
\* owned text.
C9_RoundTripEveryValue ==
  rt.pc = "read" => rt.out = Ok(Contents("CreateNetworkOptions", rt.v))

\* C9: serializing a CreateNetworkOptions value and deserializing the text
\* yields a structurally equal record (same name, driver, flags, IPAM driver,
\* IPAMConfig entries in the same order, same key/value sets in the maps) for
\* every value with owned text, and for every value with borrowed text none of
\* whose texts JSON escapes; for borrowed text that JSON escapes the
\* deserialization reports an error, and no round trip yields another record.
C9_RoundTripOwnedOrUnescaped ==
  rt.pc = "read" =>
    /\ rt.inst = "String" \/ Borrowable("CreateNetworkOptions", rt.v) =>
         rt.out = Ok(Contents("CreateNetworkOptions", rt.v))
    /\ rt.inst = "&str" /\ ~Borrowable("CreateNetworkOptions", rt.v) => ~rt.out.ok
    /\ rt.out.ok => rt.out.val = Contents("CreateNetworkOptions", rt.v)

\* a value with two different IPAM configs, one holding a two-key map, and
\* IPAM options of two keys has come back equal, its configs in their order
C9_Witness ==
  /\ rt.pc = "read"
  /\ rt.inst = "String"
  /\ Len(rt.v.ipam.config) = 2
  /\ rt.v.ipam.config[1].subnet = Some("172.16.0.0/12")
  /\ rt.v.ipam.config[2].subnet = Some("a\"b")
  /\ rt.v.ipam.options # None /\ Len(rt.v.ipam.options[1]) = 2
  /\ rt.out.ok
  /\ rt.out.val.ipam.config[1].subnet = Some("172.16.0.0/12")
  /\ rt.out.val.ipam.config[2].subnet = Some("a\"b")
  /\ rt.out.val = Contents("CreateNetworkOptions", rt.v)

\* the implementations of the trait that encodes the options of an operation
QueryParamsImpls(op) ==
  CASE op = "inspect" -> InspectNetworkQueryParams_impls
    [] op = "list" -> ListNetworksQueryParams_impls
    [] op = "prune" -> PruneNetworksQueryParams_impls

\* C10: the borrowed-text and the owned-text instantiation of the options of
\* list_networks and prune_networks are both accepted at the call site, and
\* both encode to the same single ("filters", JSON) pair.
C10_OwnedAndBorrowedFilters ==
  \A c \in CallsWithOptions({"list", "prune"}) :
    \A inst \in {"&str", "String"} :
      /\ inst \in QueryParamsImpls(call[c].op)
      /\ (IF call[c].op = "list"
            THEN ListNetworksQueryParams_into_array(inst, call[c].options[1])
            ELSE PruneNetworksQueryParams_into_array(inst, call[c].options[1]))
           = Ok(call[c].req.val.query)

(***************************************************************************)
(* The encoders taken on their own: two structurally equal option values   *)
(* of one operation (for inspect in any two instantiations of the text,    *)
(* for list and prune any two map instances holding the same filters) are  *)
(* each encoded by into_array.                                             *)
(***************************************************************************)
\* trait dispatch by operation
into_array(op, inst, o) ==
  CASE op = "inspect" -> InspectNetworkQueryParams_into_array(inst, o)
    [] op = "list" -> ListNetworksQueryParams_into_array(inst, o)
    [] op = "prune" -> PruneNetworksQueryParams_into_array(inst, o)

\* the option values of an operation
OptionsValues(op) ==
  IF op = "inspect" THEN InspectNetworkOptionsValues ELSE FiltersOptionsValues

\* what an option value holds, whatever the iteration order of its map
OptionsContents(op, o) == IF op = "inspect" THEN o ELSE MapFn(o.filters)

InitEncode ==
  /\ call = [c \in CallIds |-> IdleCall]
  /\ \E op \in {"inspect", "list", "prune"} :
       \E ia \in QueryParamsImpls(op), ib \in QueryParamsImpls(op) :
         \E oa \in OptionsValues(op) :
           \E ob \in {o \in OptionsValues(op) :
                        OptionsContents(op, o) = OptionsContents(op, oa)} :
             rt = [pc |-> "options", op |-> op,
                   a |-> [inst |-> ia, o |-> oa], b |-> [inst |-> ib, o |-> ob]]

EncodePair ==
  /\ rt.pc = "options"
  /\ rt' = [pc |-> "encoded", op |-> rt.op, a |-> rt.a, b |-> rt.b,
            ra |-> into_array(rt.op, rt.a.inst, rt.a.o),
            rb |-> into_array(rt.op, rt.b.inst, rt.b.o)]
  /\ UNCHANGED call

NextEncode == EncodePair

SpecEncode == InitEncode /\ [][NextEncode]_vars

\* C11 as stated: encoding two structurally equal option values (inspect,
\* list or prune) yields the same ordered sequence of (key, value) pairs, its
\* values depending only on the options' contents, also when the filters map
\* holds two or more keys.
C11_EqualOptionsEqualPairs ==
  rt.pc = "encoded" => rt.ra.ok /\ rt.rb.ok /\ rt.ra.val = rt.rb.val

\* the keys of a parameter list, in order
PairKeys(pairs) == [i \in 1..Len(pairs) |-> pairs[i][1]]

\* C11: encoding two structurally equal option values always yields the same
\* number of pairs with the same keys in the same order, which is the
\* struct-declaration order (verbose before scope) and not the alphabetical
\* one.  For inspect, and for list and prune when the filters map holds at
\* most one key, the values are equal too.  When the filters map holds two or
\* more keys each value lists the keys in the iteration order of its own map
\* instance: the two texts may differ, and both read back as the same map.
C11_EqualOptionsEqualKeys ==
  rt.pc = "encoded" =>
    /\ rt.ra.ok /\ rt.rb.ok
    /\ PairKeys(rt.ra.val) = PairKeys(rt.rb.val)
    /\ PairKeys(rt.ra.val) =
         (IF rt.op = "inspect" THEN <<"verbose", "scope">> ELSE <<"filters">>)
    /\ rt.op = "inspect" => rt.ra.val = rt.rb.val
    /\ rt.op \in {"list", "prune"} =>
         /\ Len(rt.a.o.filters) <= 1 => rt.ra.val = rt.rb.val
         /\ MapKeys(rt.a.o.filters) = MapKeys(rt.b.o.filters) => rt.ra.val = rt.rb.val
         /\ from_str(FiltersType, rt.ra.val[1][2], "String")
              = from_str(FiltersType, rt.rb.val[1][2], "String")
         /\ from_str(FiltersType, rt.ra.val[1][2], "String") = Ok(MapFn(rt.a.o.filters))

\* two list options holding the same two filters, in map instances that
\* iterate in opposite orders, have each been encoded to one "filters" pair;
\* the two JSON texts differ and read back as the same map
C11_Witness ==
  /\ rt.pc = "encoded"
  /\ rt.op = "list"
  /\ rt.a.o.filters = << <<"label", <<"maintainer=x">> >>, <<"na\"me", <<>> >> >>
  /\ rt.b.o.filters = << <<"na\"me", <<>> >>, <<"label", <<"maintainer=x">> >> >>
  /\ rt.ra.val = << <<"filters", "{\"label\":[\"maintainer=x\"],\"na\\\"me\":[]}">> >>
  /\ rt.rb.val = << <<"filters", "{\"na\\\"me\":[],\"label\":[\"maintainer=x\"]}">> >>
  /\ from_str(FiltersType, rt.ra.val[1][2], "String")
       = from_str(FiltersType, rt.rb.val[1][2], "String")

\* C12: every invocation hands at most one request to the transport and
\* suspends at one point only, awaiting that response: a started invocation
\* is awaiting exactly when it has sent its one request, the only step out of
\* the await ends the invocation with the same request and no further send,
\* and the only step after that returns.  When the transport reports a
\* failure, the result is that error, unchanged, and the request is not
\* issued again.
C12_OneRequestOneAwaitNoRetry ==
  [][\A c \in CallIds :
       /\ call'[c].pc # "idle" =>
            /\ call'[c].sent <= 1
            /\ call'[c].pc = "awaiting" <=> (call'[c].sent = 1 /\ call'[c].resp = None)
       /\ (call[c].pc = "idle" /\ call'[c].pc = "done") =>
            call'[c].sent = 0 /\ ~call'[c].result[1].ok
       /\ (call[c].pc = "awaiting" /\ call'[c] # call[c]) =>
            /\ call'[c].pc = "done"
            /\ call'[c].sent = call[c].sent
            /\ call'[c].req = call[c].req
            /\ call'[c].resp # None
            /\ call'[c].resp[1].kind = "failure" =>
                 call'[c].result
                   = Some(Err(Error("TransportError", call'[c].resp[1].detail)))
       /\ (call[c].pc = "done" /\ call'[c] # call[c]) => call'[c] = IdleCall
  ]_vars

\* remove_network has sent its one request, the transport has refused the
\* connection, and that error is the result
C12_Witness ==
  \E c \in Calls({"remove"}) :
    /\ call[c].pc = "done"
    /\ call[c].sent = 1
    /\ call[c].resp = Some([kind |-> "failure", detail |-> "connection refused"])
    /\ call[c].result = Some(Err(Error("TransportError", "connection refused")))

(***************************************************************************)
(* Concurrent callers: every call slot runs invocations of its own, in any *)
(* interleaving with the others.  The arguments are one or two calls of    *)
(* each method, and the transport gives each request one of a failure, a   *)
(* success and an error status.                                            *)
(***************************************************************************)
Args(op, name, options, inst) ==
  [op |-> op, name |-> name, options |-> options, inst |-> inst]

ConcurrentArgs ==
  {Args("create", "", Some(PlainCreate), "&str"),
   Args("create", "", Some(PlainCreate), "Custom"),
   Args("remove", "my_network_name", None, "&str"),
   Args("inspect", "my_network_name",
        Some([verbose |-> TRUE, scope |-> "global"]), "String"),
   Args("inspect", "a b/c?d", None, "&str"),
   Args("list", "",
        Some([filters |-> << <<"label", <<"maintainer=x">> >> >>]), "&str"),
   Args("connect", "my_network_name",
        Some([container |-> "3613f73ba0e4", endpoint_config |-> PlainEndpoint]),
        "&str"),
   Args("disconnect", "my_network_name",
        Some([container |-> "3613f73ba0e4", force |-> TRUE]), "String"),
   Args("prune", "", None, "&str")}

\* the method of impl Docker that a call's arguments select, on those arguments
MethodOf(a) ==
  CASE a.op = "create" -> create_network(a.options[1], a.inst)
    [] a.op = "remove" -> remove_network(a.name)
    [] a.op = "inspect" -> inspect_network(a.name, a.options, a.inst)
    [] a.op = "list" -> list_networks(a.options, a.inst)
    [] a.op = "connect" -> connect_network(a.name, a.options[1], a.inst)
    [] a.op = "disconnect" -> disconnect_network(a.name, a.options[1], a.inst)
    [] a.op = "prune" -> prune_networks(a.options, a.inst)

ConcurrentResponses(ty) ==
  {[kind |-> "failure", detail |-> "connection refused"],
   [kind |-> "response", status |-> 200,
    body |-> IF ty = "()" THEN "" ELSE to_string(ty, Sample(ty))],
   [kind |-> "response", status |-> 404,
    body |-> "{\"message\":\"no such network\"}"]}

\* a caller invokes a method: it runs up to its await
Invoke(c) ==
  /\ call[c].pc = "idle"
  /\ \E a \in ConcurrentArgs :
       call' = [call EXCEPT ![c] =
         Started(a.op, a.name, a.options, a.inst, MethodOf(a))]
  /\ UNCHANGED rt

\* a slip in the await: the response is kept where every call reads it, so
\* one answer ends every call that is awaiting
Answer_shared_response(c) ==
  /\ call[c].pc = "awaiting"
  /\ \E resp \in ConcurrentResponses(call[c].ty) :
       call' = [d \in CallIds |->
                  IF call[d].pc = "awaiting"
                    THEN [call[d] EXCEPT !.pc = "done",
                                         !.resp = Some(resp),
                                         !.result =
                                           Some(IF call[d].into = "value"
                                                  THEN process_into_value(resp, call[d].ty)
                                                  ELSE process_into_unit(resp))]
                    ELSE call[d]]
  /\ UNCHANGED rt

\* the transport answers one awaiting call, which resumes and ends
Answer(c) ==
  /\ call[c].pc = "awaiting"
  /\ \E resp \in ConcurrentResponses(call[c].ty) :
       call' = [call EXCEPT ![c].pc = "done",
                            ![c].resp = Some(resp),
                            ![c].result =
                              Some(IF call[c].into = "value"
                                     THEN process_into_value(resp, call[c].ty)
                                     ELSE process_into_unit(resp))]
  /\ UNCHANGED rt

NextConcurrent == \E c \in CallIds : Invoke(c) \/ Answer(c) \/ Return(c)

SpecConcurrent == Init /\ [][NextConcurrent]_vars

\* the arguments a started call was invoked with
ArgsOf(r) == Args(r.op, r.name, r.options, r.inst)

\* the result a started call draws from a response, by its own method
ResultOf(r, resp) ==
  IF MethodOf(ArgsOf(r)).into = "value"
    THEN process_into_value(resp, MethodOf(ArgsOf(r)).ty)
    ELSE process_into_unit(resp)

\* C13: calls issued concurrently are independent.  In every interleaving,
\* a step of one call leaves every other call as it was; the request a call
\* builds is the one its method builds from that call's own arguments; and
\* the result it returns is the one its method draws from that call's own
\* transport response (or its own failed conversion), whatever the
\* arguments, progress or outcome of the other calls.
C13_CallsAreIndependent ==
  [][\A c \in CallIds :
       call'[c] # call[c] =>
         /\ \A d \in CallIds \ {c} : call'[d] = call[d]
         /\ call'[c].pc # "idle" =>
              /\ call'[c].req = MethodOf(ArgsOf(call'[c])).req
              /\ call[c].pc # "idle" =>
                   /\ ArgsOf(call'[c]) = ArgsOf(call[c])
                   /\ call'[c].req = call[c].req
                   /\ call'[c].resp # None
              /\ call'[c].pc = "done" =>
                   call'[c].result =
                     Some(IF call'[c].resp = None
                            THEN call'[c].req
                            ELSE ResultOf(call'[c], call'[c].resp[1]))
  ]_vars

\* two calls in flight at once have ended differently (one refused by the
\* transport, one with its decoded result) while a third call, where there
\* is one, may be anywhere
C13_Witness ==
  \E c \in Calls({"remove"}), d \in Calls({"inspect"}) :
    /\ call[c].pc = "done"
    /\ call[c].result = Some(Err(Error("TransportError", "connection refused")))
    /\ call[d].pc = "done"
    /\ call[d].name = "my_network_name"
    /\ call[d].result = Some(Ok(Contents("InspectNetworkResults", SampleInspect)))

====
